---- MODULE Spec2Model ----
(***************************************************************************)
(* A model of the kvserver storage layer (MemTable over DashMap, SledDb    *)
(* over sled) and of the Service that dispatches commands to it.           *)
(*                                                                         *)
(* Threads issue Storage calls.  A MemTable call is a sequence of steps:   *)
(* get_or_create_table (a lookup in the outer DashMap, then, on a miss,    *)
(* entry().or_default()), followed by one operation on the per-table       *)
(* DashMap; get_all and the clone() of get_iter walk the per-table map     *)
(* shard by shard.  A SledDb call is one step on the flat key space.       *)
(***************************************************************************)
EXTENDS Integers, Sequences, FiniteSets, TLC

\* ---------------------------------------------------------------- bounds
NumShards == 2

\* ---------------------------------------------------------------- inputs
Threads == {"main", "worker", "peer"}
Tables == {"t", "t:a"}
Keys == {"k", "a:k"}
Values == {1, 2}

\* Value::default(), the value a Set command answers with when the key was absent
DefaultValue == 0

\* Option<Value>: None is the empty sequence, Some(v) the one-element sequence
None == <<>>

Some(v) == <<v>>

IsSome(o) == Len(o) = 1

Kvpair(k, v) == [key |-> k, value |-> v]

\* The backend instances: MemTable 1 (the original), MemTable 2 (its clone), SledDb
MemIds == {1, 2}

SledId == 3

KeyOps == {"get", "set", "contains", "del"}

TableOps == {"get_all", "get_iter"}

MutOps == {"set", "del"}

VARIABLES tables, cloned, sled, thr, abs, svc, req, svcAbs

vars == <<tables, cloned, sled, thr, abs, svc, req, svcAbs>>

\* The Service, the requests the threads are executing, and what the
\* commands executed so far have left under each entry
svcVars == <<svc, req, svcAbs>>

\* ------------------------------------------------------------ DashMap
\* The shard a table name falls in, in the outer map: a fixed stand-in for the hasher
TableShard(name) == (Len(name) % NumShards) + 1

\* The shard a key falls in, in a per-table map (each DashMap has its own hasher)
KeyShard(key) == ((Len(key) \div 2) % NumShards) + 1

EmptyMap == [x \in {} |-> 0]

\* DashMap::get / DashMap::contains_key
MapHas(m, k) == k \in DOMAIN m

MapGet(m, k) == IF k \in DOMAIN m THEN Some(m[k]) ELSE None

\* DashMap::insert: the new map (the old value is MapGet of the old map)
MapInsert(m, k, v) == [x \in DOMAIN m \cup {k} |-> IF x = k THEN v ELSE m[x]]

\* DashMap::remove
MapRemoveKept(m, k) == m

MapRemove(m, k) == [x \in DOMAIN m \ {k} |-> m[x]]

\* The orders in which the entries of a set can be walked
Perms(S) == {f \in [1..Cardinality(S) -> S] : \A i, j \in 1..Cardinality(S) : f[i] = f[j] => i = j}

\* The entries of one shard of a per-table map, as (String, Value) pairs
ShardPairsAll(m, sh) == {Kvpair(k, m[k]) : k \in DOMAIN m}

ShardPairs(m, sh) == {Kvpair(k, m[k]) : k \in {x \in DOMAIN m : KeyShard(x) = sh}}

\* ------------------------------------------------------------ threads
\* A thread's call: where it stands (pc), what it asked, and what came back
IdleThread == [pc |-> "idle", op |-> "none", b |-> 0, table |-> "", key |-> "", value |-> 0, ret |-> None, flag |-> FALSE, status |-> "", acc |-> <<>>, out |-> <<>>, shard |-> 0, known |-> FALSE, expect |-> None, snap |-> {}, exact |-> FALSE, again |-> FALSE, fault |-> FALSE, after |-> FALSE, raced |-> FALSE]

\* The threads whose results are looked at; the others drop what a call returns
Observers == {"main", "peer"}

Returned(t, r) == IF t \in Observers \/ req[t].pc = "storage" THEN r ELSE IdleThread

InFlight(r) == r.pc \notin {"idle", "done", "panicked"}

\* Two calls touch the same entry: same backend, same table, and the same key
\* unless one of them walks the whole table
SameEntry(r, b, table, op, key) == /\ r.b = b
                                   /\ r.table = table
                                   /\ (r.op \in TableOps \/ op \in TableOps \/ r.key = key)

\* What the Storage contract says a table holds: the keys last set and not deleted since
AbsPairs(b, table) == {Kvpair(k, abs[b][<<table, k>>][1]) : k \in {x \in Keys : IsSome(abs[b][<<table, x>>])}}

\* The call as the thread's record holds it, and its mark on the calls it crosses
Issue(t, b, op, table, key, value) ==
    LET quiet == \A u \in Threads \ {t} : ~(InFlight(thr[u]) /\ thr[u].op \in MutOps /\ SameEntry(thr[u], b, table, op, key))
        mine == [IdleThread EXCEPT !.pc = IF b = SledId THEN "sled" ELSE "lookup", !.op = op, !.b = b, !.table = table, !.key = key, !.value = value, !.known = t \in Observers /\ quiet, !.expect = IF t \in Observers /\ op \in MutOps THEN abs[b][<<table, key>>] ELSE None,
                                     !.again = /\ thr[t].pc = "done" /\ thr[t].op = "del" /\ thr[t].known /\ IsSome(thr[t].ret)
                                               /\ op \in KeyOps /\ thr[t].b = b /\ thr[t].table = table /\ thr[t].key = key,
                                     !.after = b = SledId /\ thr[t].pc = "done" /\ thr[t].b = b /\ thr[t].status = "err"]
    IN thr' = [u \in Threads |-> IF u = t THEN mine
                                    ELSE IF op \in MutOps /\ SameEntry(thr[u], b, table, op, key) THEN [thr[u] EXCEPT !.known = FALSE]
                                    ELSE thr[u]]

\* A thread issues a Storage call on backend b.  known records that no set or
\* del on the same entry is in flight; a set or del issued later by another
\* thread clears it on the calls it overlaps or follows.  expect is what the
\* contract holds for the entry when a set or del is issued, and again tells
\* that the call repeats this thread's del of a present key right after it;
\* after tells that this thread's previous call on the SledDb returned Err.
Call(t, b, op, table, key, value) ==
    /\ thr[t].pc \in {"idle", "done"}
    /\ req[t].pc = "idle"
    /\ Issue(t, b, op, table, key, value)
    /\ UNCHANGED <<tables, cloned, sled, abs, svcVars>>

CallAny(t, B, E, O) == \E b \in B, op \in O :
                    \/ /\ op = "set"
                       /\ \E e \in E, value \in Values : Call(t, b, op, e[1], e[2], value)
                    \/ /\ op \in KeyOps \ {"set"}
                       /\ \E e \in E : Call(t, b, op, e[1], e[2], 0)
                    \/ /\ op \in TableOps
                       /\ \E e \in E : Call(t, b, op, e[1], "", 0)

MemEntries == {<<"t", "k">>, <<"t", "a:k">>, <<"t:a", "k">>}

\* ------------------------------------------------------------ MemTable
\* The DashMap a MemTable value owns: derive(Clone) gives every clone its own
BackingShared(b) == 1

Backing(b) == b

\* The threads holding a Ref into the outer map (a read lock on the table's shard)
RefHoldersKeepLookup(s, sh) == {u \in Threads : /\ thr[u].pc \in {"entry", "op", "scan"}
                                                /\ thr[u].b \in MemIds
                                                /\ Backing(thr[u].b) = s
                                                /\ TableShard(thr[u].table) = sh}

RefHolders(s, sh) == {u \in Threads : /\ thr[u].pc \in {"op", "scan"}
                                      /\ thr[u].b \in MemIds
                                      /\ Backing(thr[u].b) = s
                                      /\ TableShard(thr[u].table) = sh}

\* After get_or_create_table: the per-table operation, or the walk of the table
AfterTable(r) == IF r.op \in TableOps THEN [r EXCEPT !.pc = "scan", !.shard = 1] ELSE [r EXCEPT !.pc = "op"]

\* get_or_create_table, first arm: self.tables.get(name)
MemLookupNoCreate(t) ==
    /\ thr[t].pc = "lookup"
    /\ LET s == Backing(thr[t].b)
       IN thr' = [thr EXCEPT ![t] = IF MapHas(tables[s], thr[t].table) THEN AfterTable(thr[t])
                                    ELSE IF thr[t].op = "get" THEN Returned(t, [thr[t] EXCEPT !.pc = "done", !.status = "ok", !.ret = None])
                                    ELSE [thr[t] EXCEPT !.pc = "entry"]]
    /\ UNCHANGED <<tables, cloned, sled, abs, svcVars>>

MemLookup(t) ==
    /\ thr[t].pc = "lookup"
    /\ LET s == Backing(thr[t].b)
       IN thr' = [thr EXCEPT ![t] = IF MapHas(tables[s], thr[t].table) THEN AfterTable(thr[t]) ELSE [thr[t] EXCEPT !.pc = "entry"]]
    /\ UNCHANGED <<tables, cloned, sled, abs, svcVars>>

\* entry(name).or_default(): the table under the name, made empty if there is none
OrDefaultOverwrite(m, name) == MapInsert(m, name, EmptyMap)

OrDefault(m, name) == IF MapHas(m, name) THEN m ELSE MapInsert(m, name, EmptyMap)

\* get_or_create_table, second arm: self.tables.entry(name).or_default().downgrade();
\* the entry takes the shard's write lock, so it waits for the Refs into the shard.
\* raced records that another thread created the table since a set's lookup missed.
MemEntry(t) ==
    /\ thr[t].pc = "entry"
    /\ LET s == Backing(thr[t].b)
           name == thr[t].table
       IN /\ RefHolders(s, TableShard(name)) = {}
          /\ tables' = [tables EXCEPT ![s] = OrDefault(tables[s], name)]
          /\ thr' = [thr EXCEPT ![t] = AfterTable([thr[t] EXCEPT !.raced = t \in Observers /\ thr[t].op = "set" /\ MapHas(tables[s], name)])]
    /\ UNCHANGED <<cloned, sled, abs, svcVars>>

\* MemTable::get: table.get(key).map(|v| v.value().clone())
MemGetTakes(t) ==
    /\ thr[t].pc = "op" /\ thr[t].op = "get"
    /\ LET s == Backing(thr[t].b)
           m == tables[s][thr[t].table]
       IN /\ thr' = [thr EXCEPT ![t] = Returned(t, [thr[t] EXCEPT !.pc = "done", !.status = "ok", !.ret = MapGet(m, thr[t].key)])]
          /\ tables' = [tables EXCEPT ![s][thr[t].table] = MapRemove(m, thr[t].key)]
    /\ UNCHANGED <<cloned, sled, abs, svcVars>>

MemGet(t) ==
    /\ thr[t].pc = "op" /\ thr[t].op = "get"
    /\ LET m == tables[Backing(thr[t].b)][thr[t].table]
       IN thr' = [thr EXCEPT ![t] = Returned(t, [thr[t] EXCEPT !.pc = "done", !.status = "ok", !.ret = MapGet(m, thr[t].key)])]
    /\ UNCHANGED <<tables, cloned, sled, abs, svcVars>>

\* MemTable::set: table.insert(key, value)
MemSetTorn(t) ==
    /\ thr[t].pc = "op" /\ thr[t].op = "set"
    /\ LET s == Backing(thr[t].b)
           m == tables[s][thr[t].table]
       IN /\ thr' = [thr EXCEPT ![t] = Returned(t, [thr[t] EXCEPT !.pc = "done", !.status = "ok", !.ret = thr[t].expect])]
          /\ tables' = [tables EXCEPT ![s][thr[t].table] = MapInsert(m, thr[t].key, thr[t].value)]
    /\ abs' = [abs EXCEPT ![thr[t].b][<<thr[t].table, thr[t].key>>] = Some(thr[t].value)]
    /\ UNCHANGED <<cloned, sled, svcVars>>

MemSet(t) ==
    /\ thr[t].pc = "op" /\ thr[t].op = "set"
    /\ LET s == Backing(thr[t].b)
           m == tables[s][thr[t].table]
       IN /\ thr' = [thr EXCEPT ![t] = Returned(t, [thr[t] EXCEPT !.pc = "done", !.status = "ok", !.ret = MapGet(m, thr[t].key)])]
          /\ tables' = [tables EXCEPT ![s][thr[t].table] = MapInsert(m, thr[t].key, thr[t].value)]
    /\ abs' = [abs EXCEPT ![thr[t].b][<<thr[t].table, thr[t].key>>] = Some(thr[t].value)]
    /\ UNCHANGED <<cloned, sled, svcVars>>

\* MemTable::contains: table.contains_key(key)
MemContains(t) ==
    /\ thr[t].pc = "op" /\ thr[t].op = "contains"
    /\ LET m == tables[Backing(thr[t].b)][thr[t].table]
       IN thr' = [thr EXCEPT ![t] = Returned(t, [thr[t] EXCEPT !.pc = "done", !.status = "ok", !.flag = MapHas(m, thr[t].key)])]
    /\ UNCHANGED <<tables, cloned, sled, abs, svcVars>>

\* MemTable::del: table.remove(key).map(|(_k, v)| v)
MemDel(t) ==
    /\ thr[t].pc = "op" /\ thr[t].op = "del"
    /\ LET s == Backing(thr[t].b)
           m == tables[s][thr[t].table]
       IN /\ thr' = [thr EXCEPT ![t] = Returned(t, [thr[t] EXCEPT !.pc = "done", !.status = "ok", !.ret = MapGet(m, thr[t].key)])]
          /\ tables' = [tables EXCEPT ![s][thr[t].table] = MapRemove(m, thr[t].key)]
    /\ abs' = [abs EXCEPT ![thr[t].b][<<thr[t].table, thr[t].key>>] = None]
    /\ UNCHANGED <<cloned, sled, svcVars>>

\* MemTable::get_all (table.iter()...collect()) and the clone() of get_iter:
\* one shard of the per-table map at a time, each shard in the order its
\* hash table happens to keep.  After the last shard get_all returns the
\* vector; get_iter wraps the owned copy in a StorageIter.
MemScan(t) ==
    /\ thr[t].pc = "scan"
    /\ LET m == tables[Backing(thr[t].b)][thr[t].table]
           last == thr[t].shard = NumShards
       IN \E p \in Perms(ShardPairs(m, thr[t].shard)) :
             thr' = [thr EXCEPT ![t].acc = thr[t].acc \o p,
                                ![t].shard = IF last THEN 0 ELSE thr[t].shard + 1,
                                ![t].pc = IF last THEN "done" ELSE "scan",
                                ![t].status = IF last THEN "ok" ELSE "",
                                ![t].exact = last /\ thr[t].op = "get_iter" /\ thr[t].known,
                                ![t].snap = IF last /\ thr[t].op = "get_iter" THEN AbsPairs(thr[t].b, thr[t].table) ELSE {}]
    /\ UNCHANGED <<tables, cloned, sled, abs, svcVars>>

\* What a StorageIter still has to yield: the rest of the copy it owns
IterRestLive(t) == LET m == tables[Backing(thr[t].b)][thr[t].table]
                       left == {Kvpair(k, m[k]) : k \in DOMAIN m} \ {thr[t].out[i] : i \in 1..Len(thr[t].out)}
                   IN IF left = {} THEN <<>> ELSE <<CHOOSE p \in left : TRUE>>

IterRest(t) == thr[t].acc

\* StorageIter::next: self.data.next().map(|v| v.into())
IterNext(t) ==
    /\ thr[t].pc = "done" /\ thr[t].op = "get_iter"
    /\ IterRest(t) # <<>>
    /\ thr' = [thr EXCEPT ![t].out = Append(thr[t].out, Head(IterRest(t))), ![t].acc = Tail(IterRest(t))]
    /\ UNCHANGED <<tables, cloned, sled, abs, svcVars>>

\* The steps of the calls the command handlers make
HandlerStep(t) == \/ MemLookup(t)
                  \/ MemEntry(t)
                  \/ MemGet(t)
                  \/ MemSet(t)
                  \/ MemScan(t)

MemStep(t) == \/ MemLookup(t)
              \/ MemEntry(t)
              \/ MemGet(t)
              \/ MemSet(t)
              \/ MemContains(t)
              \/ MemDel(t)
              \/ MemScan(t)
              \/ IterNext(t)

\* MemTable::clone (derive(Clone)): the clone gets a copy of the outer map
\* and of every per-table map in it
CloneMem(t) ==
    /\ ~cloned
    /\ thr[t].pc \in {"idle", "done"}
    /\ cloned' = TRUE
    /\ tables' = [tables EXCEPT ![2] = tables[1]]
    /\ abs' = [abs EXCEPT ![2] = abs[1]]
    /\ UNCHANGED <<sled, thr, svcVars>>

\* ------------------------------------------------------------ Service
MaxHooks == 2

StatusOk == 200

StatusCreated == 201

StatusInvalid == 400

StatusNotFound == 404

StatusInternal == 500

\* CommandResponse { status, message, values, pairs }; the message is kept
\* as the pieces it is formatted from, the empty message as no pieces
Response(status, message, values, pairs) == [status |-> status, message |-> message, values |-> values, pairs |-> pairs]

NoResponse == Response(0, <<>>, <<>>, <<>>)

\* From<Value> for CommandResponse
ValueResponse(v) == Response(StatusOk, <<>>, <<v>>, <<>>)

\* From<Vec<Kvpair>> for CommandResponse
PairsResponse(ps) == Response(StatusOk, <<>>, <<>>, ps)

\* From<KvError> for CommandResponse
ErrorResponse(kind, detail) ==
    Response(CASE kind = "NotFound" -> StatusNotFound
               [] kind = "InvalidCommand" -> StatusInvalid
               [] OTHER -> StatusInternal,
             <<kind>> \o detail, <<>>, <<>>)

\* CommandRequest: the payload kind ("None" for a request with no payload,
\* "Hdel" for a payload dispatch has no arm for) and its table, key and value
Command(kind, table, key, value) == [kind |-> kind, table |-> table, key |-> key, value |-> value]

WiredKinds == {"Hget", "Hset", "Hgetall"}

SvcEntries == {<<"t", "k">>}

Commands == {Command("Hget", e[1], e[2], 0) : e \in SvcEntries}
            \cup {Command("Hset", x[1][1], x[1][2], x[2]) : x \in SvcEntries \X Values}
            \cup {Command("Hgetall", e[1], "", 0) : e \in SvcEntries}
            \cup {Command("Hdel", e[1], e[2], 0) : e \in SvcEntries}
            \cup {Command("None", "", "", 0)}

\* The before-send hooks a Service is built with: fn(&mut CommandResponse)
Hooks == {"created", "bump", "strip"}

\* The fields a hook writes
HookWrites(h) == IF h = "strip" THEN {"values"} ELSE {"status"}

\* What a hook does to the response it is handed
ApplyHook(h, res) == CASE h = "created" -> [res EXCEPT !.status = StatusCreated]
                       [] h = "bump" -> [res EXCEPT !.status = res.status + 1]
                       [] h = "strip" -> [res EXCEPT !.values = <<>>]

IdleReq == [pc |-> "idle", h |-> 0, cmd |-> Command("", "", "", 0), res |-> NoResponse, disp |-> NoResponse, i |-> 0, log |-> <<>>, known |-> FALSE, expect |-> None]

\* What svcAbs holds for an entry that overlapping Set commands have written
Unsure == <<-1>>

ReqInFlight(r) == r.pc \notin {"idle", "returned"}

\* Two commands touch the same entry
SameCommandEntry(c, d) == /\ c.kind \in WiredKinds /\ d.kind \in WiredKinds
                          /\ c.table = d.table
                          /\ (c.kind = "Hgetall" \/ d.kind = "Hgetall" \/ c.key = d.key)

\* ServiceInner::fn_received
RegisterReceived ==
    /\ ~svc.sealed /\ Len(svc.on_received) < MaxHooks
    /\ svc' = [svc EXCEPT !.on_received = Append(svc.on_received, "seen")]
    /\ UNCHANGED <<tables, cloned, sled, thr, abs, req, svcAbs>>

\* ServiceInner::fn_executed
RegisterExecuted ==
    /\ ~svc.sealed /\ Len(svc.on_executed) < MaxHooks
    /\ svc' = [svc EXCEPT !.on_executed = Append(svc.on_executed, "seen")]
    /\ UNCHANGED <<tables, cloned, sled, thr, abs, req, svcAbs>>

\* ServiceInner::fn_before_send
RegisterBeforeSend(h) ==
    /\ ~svc.sealed /\ Len(svc.on_before_send) < MaxHooks
    /\ svc' = [svc EXCEPT !.on_before_send = Append(svc.on_before_send, h)]
    /\ UNCHANGED <<tables, cloned, sled, thr, abs, req, svcAbs>>

\* From<ServiceInner> for Service: the inner goes behind an Arc
Seal ==
    /\ ~svc.sealed
    /\ svc' = [svc EXCEPT !.sealed = TRUE]
    /\ UNCHANGED <<tables, cloned, sled, thr, abs, req, svcAbs>>

\* Clone for Service: Arc::clone(&self.inner), one more handle on the same inner
CloneService ==
    /\ svc.sealed /\ svc.handles = 1
    /\ svc' = [svc EXCEPT !.handles = 2]
    /\ UNCHANGED <<tables, cloned, sled, thr, abs, req, svcAbs>>

\* The store a handle's execute runs against: &self.inner.store
ServiceStoreOwn(h) == h

ServiceStore(h) == 1

\* Where execute stands once the hooks of a list have all run
PhaseSkipExecuted(pc, i) == IF pc = "received" /\ i > Len(svc.on_received) THEN "dispatch"
                            ELSE IF pc = "executed"
                                 THEN (IF Len(svc.on_before_send) = 0 THEN "returned" ELSE "before_send")
                            ELSE IF pc = "before_send" /\ i > Len(svc.on_before_send) THEN "returned"
                            ELSE pc

Phase(pc, i) == IF pc = "received" /\ i > Len(svc.on_received) THEN "dispatch"
                ELSE IF pc = "executed" /\ i > Len(svc.on_executed)
                     THEN (IF Len(svc.on_before_send) = 0 THEN "returned" ELSE "before_send")
                ELSE IF pc = "before_send" /\ i > Len(svc.on_before_send) THEN "returned"
                ELSE pc

\* Move to the next hook of the list, or on to the next list
Advance(r, pc, i) == [r EXCEPT !.pc = Phase(pc, i), !.i = IF Phase(pc, i) = pc THEN i ELSE 1]

\* Service::execute is entered with a request.  known records that no Set on
\* the same entry is in flight; a Set issued later by another thread clears it.
Execute(t, h, cmd) ==
    /\ svc.sealed /\ h \in 1..svc.handles
    /\ req[t].pc \in {"idle", "returned"}
    /\ thr[t].pc \in {"idle", "done"}
    /\ LET quiet == \A u \in Threads \ {t} : ~(ReqInFlight(req[u]) /\ req[u].cmd.kind = "Hset" /\ SameCommandEntry(req[u].cmd, cmd))
           mine == Advance([IdleReq EXCEPT !.h = h, !.cmd = cmd, !.known = quiet,
                                           !.expect = IF cmd.kind = "Hset" THEN svcAbs[<<cmd.table, cmd.key>>] ELSE None],
                           "received", 1)
       IN req' = [u \in Threads |-> IF u = t THEN mine
                                    ELSE IF cmd.kind = "Hset" /\ SameCommandEntry(req[u].cmd, cmd) THEN [req[u] EXCEPT !.known = FALSE]
                                    ELSE req[u]]
    /\ UNCHANGED <<tables, cloned, sled, thr, abs, svc, svcAbs>>

\* self.inner.on_received.notify(&cmd): Notify for Vec<fn(&Arg)>, one hook
NotifyReceived(t) ==
    /\ req[t].pc = "received"
    /\ req' = [req EXCEPT ![t] = Advance([req[t] EXCEPT !.log = Append(req[t].log, "received")], "received", req[t].i + 1)]
    /\ UNCHANGED <<tables, cloned, sled, thr, abs, svc, svcAbs>>

\* The arm of dispatch a payload kind takes
DispatchArmSwapped(kind) == IF kind \in WiredKinds THEN kind ELSE IF kind = "None" THEN "unimplemented" ELSE "invalid"

DispatchArm(kind) == IF kind \in WiredKinds THEN kind ELSE IF kind = "None" THEN "invalid" ELSE "unimplemented"

\* dispatch: the match on cmd.request_data.  A wired command calls the
\* store (Hget::execute, Hset::execute, Hgetall::execute); the two other arms
\* answer at once.
Dispatch(t) ==
    /\ req[t].pc = "dispatch"
    /\ LET c == req[t].cmd
           arm == DispatchArm(c.kind)
           r == [req[t] EXCEPT !.log = Append(req[t].log, "dispatch")]
           answer(res) == Advance([r EXCEPT !.res = res, !.disp = res], "executed", 1)
       IN CASE arm = "invalid" ->
                 /\ req' = [req EXCEPT ![t] = answer(ErrorResponse("InvalidCommand", <<"Request has no data">>))]
                 /\ UNCHANGED thr
            [] arm = "unimplemented" ->
                 /\ req' = [req EXCEPT ![t] = answer(ErrorResponse("Internal", <<"Not implemented">>))]
                 /\ UNCHANGED thr
            [] OTHER ->
                 /\ req' = [req EXCEPT ![t] = [r EXCEPT !.pc = "storage"]]
                 /\ Issue(t, ServiceStore(req[t].h),
                          CASE arm = "Hget" -> "get" [] arm = "Hset" -> "set" [] OTHER -> "get_all",
                          c.table, c.key, c.value)
    /\ UNCHANGED <<tables, cloned, sled, abs, svc, svcAbs>>

\* Hget::execute, Hset::execute, Hgetall::execute: the store's answer as a response
HandlerResponse(c, r) ==
    CASE r.status # "ok" -> ErrorResponse("Internal", <<"storage">>)
      [] c.kind = "Hget" -> IF IsSome(r.ret) THEN ValueResponse(r.ret[1]) ELSE ErrorResponse("NotFound", <<c.table, c.key>>)
      [] c.kind = "Hset" -> IF IsSome(r.ret) THEN ValueResponse(r.ret[1]) ELSE ValueResponse(DefaultValue)
      [] OTHER -> PairsResponse(r.acc)

\* The command handler returns to dispatch, and dispatch to execute
HandlerReturn(t) ==
    /\ req[t].pc = "storage"
    /\ thr[t].pc = "done"
    /\ LET c == req[t].cmd
           res == HandlerResponse(c, thr[t])
       IN /\ req' = [req EXCEPT ![t] = Advance([req[t] EXCEPT !.res = res, !.disp = res], "executed", 1)]
          /\ svcAbs' = IF c.kind = "Hset" THEN [svcAbs EXCEPT ![<<c.table, c.key>>] = IF req[t].known THEN Some(c.value) ELSE Unsure] ELSE svcAbs
    /\ thr' = [thr EXCEPT ![t] = IdleThread]
    /\ UNCHANGED <<tables, cloned, sled, abs, svc>>

\* self.inner.on_executed.notify(&res): Notify for Vec<fn(&Arg)>, one hook
NotifyExecuted(t) ==
    /\ req[t].pc = "executed"
    /\ req' = [req EXCEPT ![t] = Advance([req[t] EXCEPT !.log = Append(req[t].log, "executed")], "executed", req[t].i + 1)]
    /\ UNCHANGED <<tables, cloned, sled, thr, abs, svc, svcAbs>>

\* The hook that runs at the i-th turn of the loop over the before-send list
HookAtReversed(hooks, i) == hooks[Len(hooks) + 1 - i]

HookAt(hooks, i) == hooks[i]

\* self.inner.on_before_send.notify(&mut res): NotifyMut for Vec<fn(&mut Arg)>,
\* one hook, handed the response as the hooks before it left it
NotifyBeforeSend(t) ==
    /\ req[t].pc = "before_send"
    /\ LET h == HookAt(svc.on_before_send, req[t].i)
       IN req' = [req EXCEPT ![t] = Advance([req[t] EXCEPT !.res = ApplyHook(h, req[t].res), !.log = Append(req[t].log, "before_send")], "before_send", req[t].i + 1)]
    /\ UNCHANGED <<tables, cloned, sled, thr, abs, svc, svcAbs>>

ExecuteStep(t) == \/ NotifyReceived(t)
                  \/ Dispatch(t)
                  \/ HandlerReturn(t)
                  \/ NotifyExecuted(t)
                  \/ NotifyBeforeSend(t)

\* ------------------------------------------------------------ SledDb
\* The field tag that opens an encoded Value
ValueTag == 8

\* A value the encoder rejects
Malformed == -1

\* Bytes in the tree that are no encoded Value
Garbage == <<0>>

\* Value -> Vec<u8> (TryFrom<Value> for Vec<u8>): the bytes stored in sled
Encode(v) == IF v = Malformed THEN [ok |-> FALSE, val |-> <<>>] ELSE [ok |-> TRUE, val |-> <<ValueTag, v>>]

\* &[u8] -> Value (TryFrom<&[u8]> for Value): fails on bytes that are no Value
Decode(bytes) == IF Len(bytes) = 2 /\ bytes[1] = ValueTag THEN [ok |-> TRUE, val |-> bytes[2]] ELSE [ok |-> FALSE, val |-> 0]

\* SledDb::get_full_key: format!("{}:{}", table, key)
get_full_key(table, key) == table \o ":" \o key

\* SledDb::get_table_prefix: format!("{}:", table)
get_table_prefix(table) == table \o ":"

\* flip: Option<Result<T, E>> to Result<Option<T>, E>
flipLossy(x) == IF x = None THEN [ok |-> TRUE, val |-> None]
                ELSE IF x[1].ok THEN [ok |-> TRUE, val |-> Some(x[1].val)]
                ELSE [ok |-> TRUE, val |-> None]

flip(x) == IF x = None THEN [ok |-> TRUE, val |-> None]
           ELSE IF x[1].ok THEN [ok |-> TRUE, val |-> Some(x[1].val)]
           ELSE [ok |-> FALSE, val |-> None]

\* Option<IVec>.map(|v| v.as_ref().try_into())
DecodeOpt(raw) == IF raw = None THEN None ELSE <<Decode(raw[1])>>

\* SledDb::get
SledGet(t) ==
    /\ thr[t].pc = "sled" /\ thr[t].op = "get"
    /\ LET name == get_full_key(thr[t].table, thr[t].key)
           result == flip(DecodeOpt(MapGet(sled, name)))
       IN thr' = [thr EXCEPT ![t] = Returned(t, [thr[t] EXCEPT !.pc = "done", !.status = IF result.ok THEN "ok" ELSE "err", !.ret = result.val])]
    /\ UNCHANGED <<tables, cloned, sled, abs, svcVars>>

\* SledDb::set: the value is encoded first (an Err leaves the tree alone),
\* then inserted, and the bytes that were there are decoded for the answer
SledSet(t) ==
    /\ thr[t].pc = "sled" /\ thr[t].op = "set"
    /\ LET name == get_full_key(thr[t].table, thr[t].key)
           data == Encode(thr[t].value)
           result == flip(DecodeOpt(MapGet(sled, name)))
       IN IF data.ok
          THEN /\ sled' = MapInsert(sled, name, data.val)
               /\ abs' = [abs EXCEPT ![SledId][<<thr[t].table, thr[t].key>>] = Some(thr[t].value)]
               /\ thr' = [thr EXCEPT ![t] = Returned(t, [thr[t] EXCEPT !.pc = "done", !.status = IF result.ok THEN "ok" ELSE "err", !.ret = result.val])]
          ELSE /\ thr' = [thr EXCEPT ![t] = Returned(t, [thr[t] EXCEPT !.pc = "done", !.status = "err"])]
               /\ UNCHANGED <<sled, abs>>
    /\ UNCHANGED <<tables, cloned, svcVars>>

\* SledDb::contains, del, get_all, get_iter: todo!(), which panics
SledTodo(t) ==
    /\ thr[t].pc = "sled" /\ thr[t].op \in {"contains", "del", "get_all", "get_iter"}
    /\ thr' = [thr EXCEPT ![t].pc = "panicked", ![t].status = "panic"]
    /\ UNCHANGED <<tables, cloned, sled, abs, svcVars>>

\* self.0.get(..)? and self.0.insert(..)?: the engine reports a read or write
\* fault and the call returns the Err; set has encoded its value by then.
\* The tree is taken to be as it was.
SledFault(t) ==
    /\ thr[t].pc = "sled" /\ thr[t].op \in {"get", "set"}
    /\ thr[t].op = "set" => Encode(thr[t].value).ok
    /\ thr' = [thr EXCEPT ![t] = Returned(t, [thr[t] EXCEPT !.pc = "done", !.status = "err", !.fault = TRUE])]
    /\ UNCHANGED <<tables, cloned, sled, abs, svcVars>>

SledStep(t) == \/ SledGet(t)
               \/ SledSet(t)
               \/ SledTodo(t)

Init == /\ tables = [s \in MemIds |-> EmptyMap]
        /\ cloned = FALSE
        /\ sled = EmptyMap
        /\ thr = [t \in Threads |-> IdleThread]
        /\ abs = [b \in MemIds \cup {SledId} |-> [e \in Tables \X Keys |-> None]]
        /\ svc = [sealed |-> FALSE, handles |-> 1, on_received |-> <<>>, on_executed |-> <<>>, on_before_send |-> <<>>]
        /\ req = [t \in Threads |-> IdleReq]
        /\ svcAbs = [e \in Tables \X Keys |-> None]

\* One MemTable shared by the threads
Next == \/ CallAny("main", {1}, MemEntries, KeyOps \cup TableOps)
        \/ CallAny("worker", {1}, MemEntries, MutOps)
        \/ \E t \in Threads : MemStep(t)

Spec == Init /\ [][Next]_vars

AllEntries == Tables \X Keys

\* One SledDb shared by the threads
NextSled == \/ CallAny("main", {SledId}, AllEntries, KeyOps \cup TableOps)
            \/ CallAny("worker", {SledId}, AllEntries, MutOps)
            \/ \E t \in Threads : SledStep(t)

SpecSled == Init /\ [][NextSled]_vars

LiveEntries == {<<"t", "k">>, <<"t:a", "k">>}

\* One MemTable shared by the threads, every thread making every call
NextLive == \/ \E t \in {"main", "worker"}, e \in LiveEntries, op \in KeyOps \cup TableOps :
                  Call(t, 1, op, e[1], IF op \in TableOps THEN "" ELSE e[2], IF op = "set" THEN 1 ELSE 0)
            \/ \E t \in Threads : MemStep(t)

\* Every thread that can take a step of its call gets to take it, and a
\* thread waiting for a shard's write lock gets it if the shard keeps
\* becoming free (the lock does not let readers starve a waiting writer)
SpecLive == /\ Init /\ [][NextLive]_vars
            /\ \A t \in Threads : WF_vars(MemStep(t)) /\ SF_vars(MemEntry(t))

PairEntries == {<<"t", "k">>, <<"t:a", "k">>}

\* One MemTable on which two threads set, both looking at what comes back
NextPair == \/ \E t \in Observers, e \in PairEntries, v \in Values : Call(t, 1, "set", e[1], e[2], v)
            \/ \E t \in Observers : \/ MemLookup(t)
                                     \/ MemEntry(t)
                                     \/ MemSet(t)

SpecPair == Init /\ [][NextPair]_vars

\* The trees SledDb::new may open: under any full key there may be bytes that
\* are no encoded Value
PreExisting == UNION {[K -> {Garbage}] : K \in SUBSET {get_full_key(e[1], e[2]) : e \in AllEntries}}

InitFaults == /\ tables = [s \in MemIds |-> EmptyMap]
              /\ cloned = FALSE
              /\ sled \in PreExisting
              /\ thr = [t \in Threads |-> IdleThread]
              /\ abs = [b \in MemIds \cup {SledId} |-> [e \in Tables \X Keys |-> None]]
              /\ svc = [sealed |-> FALSE, handles |-> 1, on_received |-> <<>>, on_executed |-> <<>>, on_before_send |-> <<>>]
              /\ req = [t \in Threads |-> IdleReq]
              /\ svcAbs = [e \in Tables \X Keys |-> None]

\* One SledDb opened on such a tree, with an engine that may fault and values
\* that may fail to encode, used by one thread
NextSledFaults == \/ \E e \in AllEntries : Call("main", SledId, "get", e[1], e[2], 0)
                  \/ \E e \in AllEntries, v \in Values \cup {Malformed} : Call("main", SledId, "set", e[1], e[2], v)
                  \/ SledGet("main")
                  \/ SledSet("main")
                  \/ SledFault("main")

SpecSledFaults == InitFaults /\ [][NextSledFaults]_vars

CloneEntries == {<<"t", "k">>, <<"t", "a:k">>}

\* A MemTable and, once made, its clone, used by one thread
NextClone == \/ CloneMem("main")
             \/ CallAny("main", IF cloned THEN MemIds ELSE {1}, CloneEntries, KeyOps \cup TableOps)
             \/ MemStep("main")

SpecClone == Init /\ [][NextClone]_vars

\* A Service built without hooks and, once made, its clone, used by the threads
NextSvc == \/ Seal
           \/ CloneService
           \/ \E t \in {"main", "worker"} : \/ \E h \in 1..2, cmd \in Commands : Execute(t, h, cmd)
                                 \/ Dispatch(t)
                                 \/ HandlerReturn(t)
                                 \/ HandlerStep(t)

SpecSvc == Init /\ [][NextSvc]_vars

\* A Service built with hooks, used by one thread
NextHooks == \/ RegisterReceived
             \/ RegisterExecuted
             \/ \E h \in Hooks : RegisterBeforeSend(h)
             \/ Seal
             \/ \E cmd \in Commands : Execute("main", 1, cmd)
             \/ ExecuteStep("main")
             \/ HandlerStep("main")

SpecHooks == Init /\ [][NextHooks]_vars

\* ------------------------------------------------------------ claims
SeqSet(q) == {q[i] : i \in 1..Len(q)}

Finished(t, op) == thr[t].pc = "done" /\ thr[t].op = op

\* What a get of the entry would answer now
Stored(b, table, key) ==
    IF b = SledId THEN flip(DecodeOpt(MapGet(sled, get_full_key(table, key)))).val
    ELSE IF MapHas(tables[Backing(b)], table) THEN MapGet(tables[Backing(b)][table], key)
    ELSE None

\* C1: on either backend, a get issued after set(T,K,V) returned Ok, with no
\* other set or del on (T,K) in between, returns Some(V).
C1_ReadAfterWrite ==
    \A t \in Observers :
        LET r == thr[t]
        IN (Finished(t, "get") /\ r.known /\ IsSome(abs[r.b][<<r.table, r.key>>])) =>
               /\ r.status = "ok"
               /\ r.ret = abs[r.b][<<r.table, r.key>>]

\* C2: on either backend, set(T,K,V) returns None when (T,K) holds no value
\* and otherwise Some of the value the most recent set on (T,K) stored, and
\* the stored value becomes V.
C2_SetReturnsPrior ==
    \A t \in Observers :
        LET r == thr[t]
        IN (Finished(t, "set") /\ r.known) =>
               /\ r.status = "ok"
               /\ r.ret = r.expect
               /\ Stored(r.b, r.table, r.key) = Some(r.value)

\* C3: get returns Ok(None) on either backend, and contains returns Ok(false)
\* on the in-memory backend, when the table was never touched or the key is
\* not present in it.
C3_MissingIsAbsence ==
    \A t \in Observers :
        LET r == thr[t]
        IN (r.pc = "done" /\ r.op \in KeyOps /\ r.known /\ abs[r.b][<<r.table, r.key>>] = None) =>
               /\ r.op = "get" => (r.status = "ok" /\ r.ret = None)
               /\ (r.op = "contains" /\ r.b \in MemIds) => (r.status = "ok" /\ r.flag = FALSE)

\* C4: on the in-memory backend a del with no concurrent set or del on the
\* entry returns the value the entry held (None for a missing key or a table
\* never touched) and leaves the key absent; the del, get or contains that
\* immediately repeats a del of a present key finds nothing.
C4_DelReturnsPriorThenAbsent ==
    \A t \in Observers :
        LET r == thr[t]
        IN /\ (Finished(t, "del") /\ r.b \in MemIds /\ r.known) =>
                  /\ r.ret = r.expect
                  /\ ~MapHas(tables[Backing(r.b)][r.table], r.key)
           /\ (r.pc = "done" /\ r.b \in MemIds /\ r.known /\ r.again) =>
                  /\ r.op = "del" => r.ret = None
                  /\ r.op = "get" => r.ret = None
                  /\ r.op = "contains" => r.flag = FALSE

C4_Witness ==
    \E t \in Observers : /\ Finished(t, "del") /\ thr[t].b \in MemIds
                         /\ thr[t].known /\ thr[t].again /\ thr[t].ret = None

\* C5: on the in-memory backend, with no set or del on the table since the
\* call was issued, get_all returns, and a fully consumed get_iter has
\* yielded, every key the table holds with its current value, each exactly once.
C5_GetAllGetIterAgree ==
    \A t \in Observers :
        LET r == thr[t]
            want == AbsPairs(r.b, r.table)
        IN /\ (Finished(t, "get_all") /\ r.b \in MemIds /\ r.known) =>
                  /\ SeqSet(r.acc) = want
                  /\ Len(r.acc) = Cardinality(want)
           /\ (Finished(t, "get_iter") /\ r.b \in MemIds /\ r.known /\ r.acc = <<>>) =>
                  /\ SeqSet(r.out) = want
                  /\ Len(r.out) = Cardinality(want)

C5_Witness ==
    \E t \in Observers : /\ Finished(t, "get_iter") /\ thr[t].b \in MemIds
                         /\ thr[t].known /\ thr[t].acc = <<>> /\ Len(thr[t].out) = 2
                         /\ \E k \in Keys : abs[thr[t].b][<<thr[t].table, k>>] = Some(2)

\* C6: the pairs an iterator obtained from get_iter yields are the contents
\* the table had when get_iter was called, each once, whatever is set or
\* deleted in the table after get_iter returned.
C6_IteratorSnapshot ==
    \A t \in Observers :
        LET r == thr[t]
        IN (Finished(t, "get_iter") /\ r.b \in MemIds /\ r.exact) =>
               /\ SeqSet(r.out \o r.acc) = r.snap
               /\ Len(r.out) + Len(r.acc) = Cardinality(r.snap)

\* an iterator half consumed, over a table that has changed since
C6_Witness ==
    \E t \in Observers : /\ Finished(t, "get_iter") /\ thr[t].b \in MemIds /\ thr[t].exact
                         /\ Len(thr[t].out) = 1 /\ Len(thr[t].acc) = 1
                         /\ ~thr[t].known
                         /\ AbsPairs(thr[t].b, thr[t].table) # thr[t].snap

\* C7: a Set executed through one handle of a Service answers 200 with the
\* one prior value (the default Value when the key was absent), and a Get
\* executed through any handle after it returned answers 200 with exactly
\* the value set.
C7_ServiceHandlesShare ==
    \A t \in Threads :
        LET r == req[t]
            e == <<r.cmd.table, r.cmd.key>>
        IN (r.pc = "returned" /\ r.known) =>
               /\ (r.cmd.kind = "Hset" /\ r.expect # Unsure) =>
                      r.res = Response(StatusOk, <<>>, <<IF r.expect = None THEN DefaultValue ELSE r.expect[1]>>, <<>>)
               /\ (r.cmd.kind = "Hget" /\ IsSome(svcAbs[e]) /\ svcAbs[e] # Unsure) =>
                      r.res = Response(StatusOk, <<>>, <<svcAbs[e][1]>>, <<>>)

\* a Set through the clone on one thread, read back through the original on the other
C7_Witness ==
    \E t, u \in Threads :
        /\ t # u
        /\ req[u].pc = "returned" /\ req[u].known /\ req[u].cmd.kind = "Hset" /\ req[u].h = 2
        /\ req[u].res.values = <<DefaultValue>>
        /\ req[t].pc = "returned" /\ req[t].known /\ req[t].cmd.kind = "Hget" /\ req[t].h = 1
        /\ req[t].cmd.table = req[u].cmd.table /\ req[t].cmd.key = req[u].cmd.key
        /\ req[t].res.values = <<req[u].cmd.value>>

\* C8 as claimed: what is set or deleted through a MemTable is seen through
\* its clone, and the other way round.
C8_CloneShares ==
    cloned => \A e \in Tables \X Keys : Stored(1, e[1], e[2]) = Stored(2, e[1], e[2])

\* C8, amended: a clone of a MemTable is a deep copy.  It starts with the
\* contents the original had when it was cloned, and from then on get and
\* get_all through either of the two answer with what was set and deleted
\* through that one alone.
C8_CloneIsDeepCopy ==
    \A t \in Observers :
        LET r == thr[t]
        IN (r.pc = "done" /\ r.b \in MemIds /\ r.known) =>
               /\ r.op = "get" => r.ret = abs[r.b][<<r.table, r.key>>]
               /\ r.op = "get_all" => SeqSet(r.acc) = AbsPairs(r.b, r.table)

\* the clone still answers with the value it was cloned with, the original with a later one
C8_Witness ==
    \E t \in Observers :
        /\ cloned /\ Finished(t, "get") /\ thr[t].b = 2 /\ thr[t].known
        /\ thr[t].ret = Some(1)
        /\ Stored(1, thr[t].table, thr[t].key) = Some(2)

ErrorOnly(res, text) == /\ res.status # StatusOk
                        /\ text \in SeqSet(res.message)
                        /\ res.values = <<>>
                        /\ res.pairs = <<>>

\* C9: a request with no payload is answered with a non-success status, a
\* message containing "Request has no data" and no values or pairs; a payload
\* that is none of Hget, Hgetall, Hset with a non-success status, a message
\* saying "Not implemented" and no values or pairs; and the step of dispatch
\* that answers them leaves the backend as it was.
C9_InvalidAndUnknown ==
    /\ [](\A t \in Threads :
              req[t].pc = "returned" =>
                  /\ req[t].cmd.kind = "None" => ErrorOnly(req[t].res, "Request has no data")
                  /\ req[t].cmd.kind \notin WiredKinds \cup {"None"} => ErrorOnly(req[t].res, "Not implemented"))
    /\ [][\A t \in Threads :
              (req[t].pc = "dispatch" /\ req[t].cmd.kind \notin WiredKinds /\ req'[t] # req[t]) =>
                  (tables' = tables /\ thr' = thr /\ req'[t].pc = "returned")]_vars

C9_Witness ==
    \E t, u \in Threads :
        /\ req[t].pc = "returned" /\ req[t].cmd.kind = "None" /\ req[t].res.status = StatusInvalid
        /\ req[u].pc = "returned" /\ req[u].cmd.kind = "Hdel" /\ req[u].res.status = StatusInternal
        /\ Stored(1, "t", "k") = Some(1)

\* The indices of the before-send hooks that write a field
Writers(field) == {i \in 1..Len(svc.on_before_send) : field \in HookWrites(svc.on_before_send[i])}

Max(S) == CHOOSE x \in S : \A y \in S : y <= x

\* C10: the before-send hooks run in registration order, each on the response
\* as the hooks before it left it: the status returned is the one the last
\* registered hook that sets it wrote, raised once by every hook registered
\* after that one that raises it, and a field no hook writes is returned as
\* dispatch produced it.
C10_BeforeSendOrder ==
    \A t \in Threads :
        LET r == req[t]
            hooks == svc.on_before_send
            setters == {i \in 1..Len(hooks) : hooks[i] = "created"}
            from == IF setters = {} THEN 0 ELSE Max(setters)
            raises == Cardinality({i \in 1..Len(hooks) : i > from /\ hooks[i] = "bump"})
        IN r.pc = "returned" =>
               /\ r.res.status = (IF from = 0 THEN r.disp.status ELSE StatusCreated) + raises
               /\ r.res.values = (IF Writers("values") = {} THEN r.disp.values ELSE <<>>)
               /\ r.res.message = r.disp.message
               /\ r.res.pairs = r.disp.pairs

\* two hooks that both write the status: the second sees what the first wrote
C10_Witness ==
    \E t \in Threads :
        /\ req[t].pc = "returned"
        /\ svc.on_before_send = <<"created", "bump">>
        /\ req[t].cmd.kind = "Hset"
        /\ req[t].res.status = StatusCreated + 1
        /\ req[t].res.values = <<DefaultValue>>

\* n times the same entry
Rep(x, n) == [i \in 1..n |-> x]

\* The response after the hooks of a list have run on it, first to last
RECURSIVE ApplyAll(_, _)
ApplyAll(hooks, res) == IF hooks = <<>> THEN res ELSE ApplyAll(Tail(hooks), ApplyHook(Head(hooks), res))

\* The steps of one execute call, in the order the claim gives them
Lifecycle == Rep("received", Len(svc.on_received)) \o <<"dispatch">> \o Rep("executed", Len(svc.on_executed)) \o Rep("before_send", Len(svc.on_before_send))

\* C11: within one execute call every on-received hook runs before dispatch
\* touches the backend, every on-executed hook runs after dispatch and before
\* any before-send hook and so is handed the response as dispatch produced it,
\* and the value returned is the response after the last before-send hook.
C11_LifecycleOrder ==
    /\ [](LET r == req["main"]
          IN /\ ReqInFlight(r) \/ r.pc = "returned" => r.log = SubSeq(Lifecycle, 1, Len(r.log))
             /\ r.pc = "received" => thr["main"].pc \in {"idle", "done"} /\ thr["main"].op = "none"
             /\ r.pc = "executed" => r.res = r.disp
             /\ r.pc = "returned" => r.log = Lifecycle /\ r.res = ApplyAll(svc.on_before_send, r.disp))
    /\ [][req["main"].pc = "received" => tables' = tables /\ thr' = thr]_vars

C11_Witness ==
    LET r == req["main"]
    IN /\ r.pc = "returned" /\ r.cmd.kind = "Hset"
       /\ Len(svc.on_received) = MaxHooks /\ Len(svc.on_executed) = MaxHooks /\ Len(svc.on_before_send) = MaxHooks
       /\ r.res # r.disp
       /\ tables[1] # EmptyMap

\* C12: on the persistent backend contains, del, get_all and get_iter answer
\* as the Storage contract says and every call returns (Ok or Err): no call
\* aborts the calling thread.
C12_SledCompletesContract ==
    \A t \in Threads :
        LET r == thr[t]
        IN /\ r.pc # "panicked"
           /\ (r.b = SledId /\ r.pc = "done" /\ r.op \in {"contains", "del", "get_all", "get_iter"}) => r.status \in {"ok", "err"}

\* C13: tables are independent keyspaces.  On either backend a set on
\* (T1, K1) leaves what get(T2, K2) answers unchanged for every table T2 # T1
\* and every key K2, whatever characters the names contain.
C13_TablesIndependent ==
    [][\A t \in Threads, b \in {1, SledId}, e \in AllEntries :
          (/\ thr[t].pc \in {"op", "sled"} /\ thr[t].op = "set" /\ thr[t].b = b
           /\ thr'[t] # thr[t]
           /\ thr[t].table # e[1])
          => Stored(b, e[1], e[2])' = Stored(b, e[1], e[2])]_vars

\* What the bytes under an entry's full key decode to
Raw(table, key) ==
    LET bytes == MapGet(sled, get_full_key(table, key))
    IN IF bytes = None THEN [ok |-> TRUE, val |-> None]
       ELSE [ok |-> Decode(bytes[1]).ok, val |-> IF Decode(bytes[1]).ok THEN Some(Decode(bytes[1]).val) ELSE None]

\* C14: on the persistent backend, when the bytes under a key do not decode
\* into a Value, or the engine reports a fault, get and set return Err, never
\* an Ok and never a panic; a call on a well-formed entry that meets no fault
\* succeeds, whatever the calls before it returned.
C14_DecodeFailureIsErr ==
    [][LET r == thr["main"]
           q == thr'["main"]
       IN (r.pc = "sled" /\ q.pc # "sled") =>
             /\ q.pc = "done"
             /\ (~Raw(r.table, r.key).ok \/ q.fault) => q.status = "err"
             /\ (Raw(r.table, r.key).ok /\ ~q.fault /\ (r.op = "set" => r.value # Malformed)) =>
                    q.status = "ok" /\ q.ret = Raw(r.table, r.key).val]_vars

C14_Witness ==
    LET r == thr["main"]
    IN /\ Finished("main", "get") /\ r.after
       /\ r.status = "ok" /\ IsSome(r.ret)
       /\ \E e \in AllEntries : ~Raw(e[1], e[2]).ok

\* C19: on the persistent backend, whenever set(T, K, V) returns Err, the
\* bytes stored under (T, K) are the same after the call as before it.
C19_SetErrLeavesBytes ==
    [][LET r == thr["main"]
           q == thr'["main"]
       IN (r.pc = "sled" /\ r.op = "set" /\ q.pc = "done" /\ q.status = "err") =>
             MapGet(sled, get_full_key(r.table, r.key))' = MapGet(sled, get_full_key(r.table, r.key))]_vars

\* C15: get-or-create is atomic.  Threads whose first operations on a new
\* table name race all end up on one table instance, so no write is lost to
\* a discarded instance: every entry holds what was last set and not deleted
\* since, and after two sets of different keys both keys are in the table.
C15_GetOrCreateAtomic ==
    \A e \in MemEntries : Stored(1, e[1], e[2]) = abs[1][e]

C15_Witness ==
    LET r == thr["main"]
    IN /\ Finished("main", "set") /\ r.raced
       /\ thr["worker"].pc = "idle"
       /\ \E k \in Keys \ {r.key} : IsSome(Stored(1, r.table, k))
       /\ Stored(1, r.table, r.key) = Some(r.value)

StoredPairs(b, table) ==
    IF MapHas(tables[Backing(b)], table)
    THEN {Kvpair(k, tables[Backing(b)][table][k]) : k \in DOMAIN tables[Backing(b)][table]}
    ELSE {}

\* C17: read-only operations have no observable effect.  On the in-memory
\* backend no step of a get, contains, get_all or get_iter, nor of a del that
\* finds nothing, changes what a later get, contains or get_all answers for
\* any table and key, although the call may create an empty table.
C17_ReadOnlyNoEffect ==
    [][\A t \in Threads :
          (/\ thr[t].pc \in {"lookup", "entry", "op", "scan"} /\ thr[t].b = 1
           /\ thr'[t] # thr[t]
           /\ \/ thr[t].op \in {"get", "contains", "get_all", "get_iter"}
              \/ thr[t].op = "del" /\ Stored(1, thr[t].table, thr[t].key) = None)
          => /\ \A e \in Tables \X Keys : Stored(1, e[1], e[2])' = Stored(1, e[1], e[2])
             /\ \A table \in Tables : StoredPairs(1, table)' = StoredPairs(1, table)]_vars

C17_Witness ==
    LET r == thr["main"]
    IN /\ Finished("main", "get") /\ r.ret = None
       /\ MapHas(tables[1], r.table) /\ tables[1][r.table] = EmptyMap
       /\ \E table \in Tables \ {r.table} : StoredPairs(1, table) # {}
       /\ thr["worker"].pc = "idle"

\* C18: per-key operations are atomic.  When two threads set the same key,
\* both calls issued while the key was absent, exactly one of them returns
\* None, the other returns Some of the first one's value, and the value
\* stored in the end is the one written by the call that returned Some.
C18_SetLinearizable ==
    LET a == thr["main"]
        b == thr["peer"]
    IN (/\ Finished("main", "set") /\ Finished("peer", "set")
        /\ a.table = b.table /\ a.key = b.key
        /\ a.expect = None /\ b.expect = None)
       => \/ a.ret = None /\ b.ret = Some(a.value) /\ Stored(1, b.table, b.key) = Some(b.value)
          \/ b.ret = None /\ a.ret = Some(b.value) /\ Stored(1, a.table, a.key) = Some(a.value)

C18_Witness ==
    LET a == thr["main"]
        b == thr["peer"]
    IN /\ Finished("main", "set") /\ Finished("peer", "set")
       /\ a.table = b.table /\ a.key = b.key
       /\ a.expect = None /\ b.expect = None
       /\ a.value # b.value
       /\ a.ret = Some(b.value)

\* C20: tables are created implicitly and never removed.  On the in-memory
\* backend, once a thread is past get_or_create_table for a name, in any
\* operation and whatever it finds, the name is in the table map, and no step
\* removes a name from the map: the set of table names only grows.
C20_TablesOnlyGrow ==
    /\ [](\A t \in Threads :
            (thr[t].b = 1 /\ thr[t].pc \in {"op", "scan", "done"}) => MapHas(tables[1], thr[t].table))
    /\ [][DOMAIN tables[1] \subseteq DOMAIN tables'[1]]_vars

C20_Witness ==
    LET r == thr["main"]
    IN /\ r.pc = "done" /\ r.op \in {"get", "contains", "del"} /\ r.ret = None /\ ~r.flag
       /\ tables[1][r.table] = EmptyMap
       /\ DOMAIN tables[1] = {"t", "t:a"}

====
